---- MODULE Spec2Model ----
(***************************************************************************)
(* The conversation turn of the OpenAI conversation agent                  *)
(* (homeassistant/components/openai_conversation/conversation.py).         *)
(*                                                                         *)
(* One OpenAIConversationEntity serves up to MaxTurns calls of             *)
(* async_process.  A call runs on the event loop and is suspended at each  *)
(* await (capability API lookup, user lookup, template render, chat        *)
(* completion), so the calls interleave at those points and nowhere else.  *)
(* Every action below is the code between two suspension points.           *)
(*                                                                         *)
(* Python values:                                                          *)
(*   - an optional value is None (the empty tuple) or Some(v) == <<v>>;    *)
(*   - a list is an object: `history` maps a conversation id to a list     *)
(*     reference and `heap` holds the contents, so that two names of the   *)
(*     same list see each other's append;                                  *)
(*   - a formatted string is the tuple of its fragments, in order.         *)
(***************************************************************************)
EXTENDS Integers, Sequences, FiniteSets, TLC

\* ----------------------------------------------------------------- bounds
\* Number of async_process calls the host makes on the entity.
MaxTurns == 3

\* ------------------------------------------------------ program constants
\* conversation.py:37
MAX_TOOL_ITERATIONS == 10

\* ------------------------------------------------------------ input sets
None == << >>
Some(v) == << v >>

\* Conversation ids a caller makes up itself (not ULIDs); "valid_id" is the
\* one test_initialize_conversation passes.
CustomIds == {"valid_id"}
\* A well-formed ULID the caller holds from elsewhere (an older conversation).
ExternalUlids == {"01J0EXTERNALULID0000000000"}
\* What a failing capability lookup says (HomeAssistantError).
ApiErrDetails == {"quota exceeded"}
\* What a failing completion call says (openai.OpenAIError).
ErrDetails == {"invalid api key sk-live", "connection reset"}
\* entry.options[CONF_LLM_HASS_API]: absent or the name of a capability API.
ApiOptions == {None, Some("assist")}
\* The recommended generation parameters of the integration.
RECOMMENDED_CHAT_MODEL == "RECOMMENDED_CHAT_MODEL"
RECOMMENDED_MAX_TOKENS == "RECOMMENDED_MAX_TOKENS"
RECOMMENDED_TOP_P == "RECOMMENDED_TOP_P"
RECOMMENDED_TEMPERATURE == "RECOMMENDED_TEMPERATURE"
\* entry.options: each key is absent (None) or present with a value.  The
\* options of the entry the tests build hold CONF_LLM_HASS_API and nothing else.
BareOptions(a) ==
    [ llm_hass_api |-> a, chat_model |-> None, max_tokens |-> None,
      top_p |-> None, temperature |-> None ]

\* The options of the entries considered: any combination of the generation
\* options with the first API or none, and the bare options with the second.
AllOptions ==
    [ llm_hass_api : ApiOptions,
      chat_model : {None, Some("configured model")},
      max_tokens : {None, Some("configured max_tokens")},
      top_p : {None, Some("configured top_p")},
      temperature : {None, Some("configured temperature")} ]
        \cup { BareOptions(Some("scripts")) }

Turns == 1..MaxTurns

VARIABLES
    options,    \* entry.options
    history,    \* self.history: conversation id -> list reference
    heap,       \* list reference -> the list's elements
    ulidClock,  \* number of ulid_now() calls so far
    turn,       \* the frame of each async_process call that is under way
    last,       \* the frame of the call that returned most recently, as it
                \* was when it returned
    service,    \* the latest call of the generate_image service
    setup,      \* the latest call of async_setup_entry and its config entry
    letta       \* the calls of the letta_api helpers and their HTTP requests

vars == << options, history, heap, ulidClock, turn, last, service, setup, letta >>

\* ------------------------------------------------- identifiers (util/ulid)
\* ulid.ulid_now(): a new ULID on every call.
UlidNow(clock) == "01J0GENERATED" \o ToString(clock)

\* ulid.ulid_to_bytes(s) returns for a well-formed ULID and raises
\* ValueError for anything else.
IsValidUlid(s) == s \in ExternalUlids \cup { UlidNow(n) : n \in 1..(2 * MaxTurns) }

\* ------------------------------------------------------- the session store
\* The transcript stored for each conversation id, given the dict and the
\* lists: what a reader of self.history sees.
StoreOf(hist, h) == [ id \in DOMAIN hist |-> h[hist[id]] ]

Store == StoreOf(history, heap)

\* The transcript stored for one id, if any.
StoreGetOf(hist, h, id) == IF id \in DOMAIN hist THEN Some(h[hist[id]]) ELSE None

StoreGet(id) == StoreGetOf(history, heap, id)

\* ------------------------------------------------------------ collaborators
\* What llm.async_get_api hands back: tools, a prompt fragment and the
\* serializer the tools' parameter schemas must be converted with.
AssistApi ==
    [ api_prompt |-> "API prompt",
      custom_serializer |-> "assist_serializer",
      tools |-> << [ name |-> "HassTurnOn",
                     description |-> Some("Turns on a device"),
                     parameters |-> "schema_turn_on" ],
                   [ name |-> "HassNevermind",
                     description |-> None,
                     parameters |-> "schema_nevermind" ],
                   [ name |-> "HassListAddItem",
                     description |-> Some(""),
                     parameters |-> "schema_list_add_item" ] >> ]

\* A second API, with a serializer of its own, whose tools are the scripts
\* exposed at the moment of the lookup: one script, or none.
ScriptsApi(exposed) ==
    [ api_prompt |-> "Scripts prompt",
      custom_serializer |-> "scripts_serializer",
      tools |-> IF exposed
                  THEN << [ name |-> "script_goodnight",
                            description |-> Some("Runs the goodnight script"),
                            parameters |-> "schema_goodnight" ] >>
                  ELSE << >> ]

\* The API objects a lookup of the API registered under a name may hand back.
ApisNamed(name) ==
    IF name = "assist" THEN { AssistApi }
    ELSE IF name = "scripts" THEN { ScriptsApi(e) : e \in BOOLEAN }
    ELSE { }

Apis == ApisNamed("assist") \cup ApisNamed("scripts")

\* Outcome of awaiting llm.async_get_api: an API or a HomeAssistantError.
ApiOutcomes ==
    { [ ok |-> TRUE, api |-> a, err |-> "" ] :
          a \in IF options.llm_hass_api = None THEN { }
                ELSE ApisNamed(options.llm_hass_api[1]) }
        \cup { [ ok |-> FALSE, api |-> AssistApi, err |-> d ] : d \in ApiErrDetails }

\* Outcome of awaiting Template.async_render: the text or a TemplateError.
RenderOutcomes ==
    { [ ok |-> TRUE, text |-> "Rendered prompt", err |-> "" ] }
        \cup { [ ok |-> FALSE, text |-> "", err |-> "UndefinedError" ] }

\* Outcome of awaiting client.chat.completions.create in round r of turn t:
\* result.choices[0].message, which may request tool calls, or an OpenAIError.
\* A message is known by the call that produced it.
Message(t, r) == [ turn |-> t, round |-> r ]

ModelOutcomes(t, r) ==
    { [ ok |-> TRUE, message |-> Message(t, r), tool_calls |-> b, err |-> "" ] : b \in BOOLEAN }
        \cup { [ ok |-> FALSE, message |-> Message(t, r), tool_calls |-> FALSE, err |-> d ] :
                  d \in ErrDetails }

\* --------------------------------------------------------- intent response
\* intent.IntentResponse(language=...): no speech, no error.
NewIntentResponse == [ response_type |-> "action_done", error_code |-> None, speech |-> None ]

\* IntentResponse.async_set_error(code, message).
SetError(code, message) ==
    [ response_type |-> "error", error_code |-> Some(code), speech |-> Some(message) ]

\* Variant: the message without the error.
ApiErrorTextNoDetail(err) == << "Error preparing LLM API" >>

\* f"Error preparing LLM API: {err}"
ApiErrorText(err) == << "Error preparing LLM API: ", err >>

\* f"Sorry, I had a problem with my template: {err}"
TemplateErrorText(err) == << "Sorry, I had a problem with my template: ", err >>

\* Variant: the error formatted into the message, as the other two handlers do.
ProviderErrorTextWithDetail(e) == << "An error occurred while generating the response: ", e >>

\* The literal of the except openai.OpenAIError branch; `e` is only logged.
ProviderErrorText(e) == << "An error occurred while generating the response." >>

\* ------------------------------------------------------------ conversation.py
\* Variant: the description is always set, to the empty string if need be.
FormatToolAlwaysDescribes(tool, custom_serializer) ==
    [ type |-> "function",
      function |-> [ name |-> tool.name,
                     parameters |-> << custom_serializer, tool.parameters >>,
                     description |-> IF tool.description = None THEN ""
                                     ELSE tool.description[1] ] ]

\* _format_tool(tool, custom_serializer)
FormatTool(tool, custom_serializer) ==
    LET tool_spec == [ name |-> tool.name,
                       parameters |-> << custom_serializer, tool.parameters >> ]
        described == tool.description # None /\ tool.description # Some("")
    IN  [ type |-> "function",
          function |-> IF described
                         THEN [ name |-> tool_spec.name,
                                parameters |-> tool_spec.parameters,
                                description |-> tool.description[1] ]
                         ELSE tool_spec ]

\* _handle_invalid_conversation_id(user_input), with the clock ulid_now reads:
\* the id it returns and the clock afterwards.
HandleInvalidConversationId(supplied, clock) ==
    LET conversation_id == IF supplied = None THEN "" ELSE supplied[1]
    IN  IF IsValidUlid(conversation_id)
          THEN [ id |-> UlidNow(clock + 1), clock |-> clock + 1 ]
          ELSE [ id |-> conversation_id, clock |-> clock ]

\* messages = self.history.get(conversation_id, []): the stored list itself,
\* or a new empty list (`fresh`) when the id has no entry.
HistoryGet(conversation_id, fresh) ==
    IF conversation_id \in DOMAIN history THEN history[conversation_id] ELSE fresh

\* options.get(key, default)
OptionsGet(opts, key, default) == IF opts[key] = None THEN default ELSE opts[key][1]

\* Variant: top_p is read from the temperature option.
CompletionParamsTopPFromTemperature(opts) ==
    [ model |-> OptionsGet(opts, "chat_model", RECOMMENDED_CHAT_MODEL),
      max_tokens |-> OptionsGet(opts, "max_tokens", RECOMMENDED_MAX_TOKENS),
      top_p |-> OptionsGet(opts, "temperature", RECOMMENDED_TOP_P),
      temperature |-> OptionsGet(opts, "temperature", RECOMMENDED_TEMPERATURE) ]

\* model=, max_tokens=, top_p= and temperature= of the completion call.
CompletionParams(opts) ==
    [ model |-> OptionsGet(opts, "chat_model", RECOMMENDED_CHAT_MODEL),
      max_tokens |-> OptionsGet(opts, "max_tokens", RECOMMENDED_MAX_TOKENS),
      top_p |-> OptionsGet(opts, "top_p", RECOMMENDED_TOP_P),
      temperature |-> OptionsGet(opts, "temperature", RECOMMENDED_TEMPERATURE) ]

\* options.get(CONF_LLM_HASS_API) is truthy.
ApiConfigured(opts) == opts.llm_hass_api # None /\ opts.llm_hass_api # Some("")

\* Variant: the except branch records the error but an API is still returned.
SetupLlmApiKeepsApi(outcome, intent_response) ==
    [ llm_api |-> Some(outcome.api),
      tools |-> Some([ i \in 1..Len(outcome.api.tools) |->
                         FormatTool(outcome.api.tools[i], outcome.api.custom_serializer) ]),
      intent_response |-> IF outcome.ok THEN intent_response
                          ELSE SetError("unknown", ApiErrorText(outcome.err)) ]

\* Variant: the tools are converted with the serializer of the first API.
SetupLlmApiAssistSerializer(outcome, intent_response) ==
    IF outcome.ok
      THEN [ llm_api |-> Some(outcome.api),
             tools |-> Some([ i \in 1..Len(outcome.api.tools) |->
                                FormatTool(outcome.api.tools[i], AssistApi.custom_serializer) ]),
             intent_response |-> intent_response ]
      ELSE [ llm_api |-> None,
             tools |-> None,
             intent_response |-> SetError("unknown", ApiErrorText(outcome.err)) ]

\* The try/except of _setup_llm_api on the outcome of the lookup.
SetupLlmApi(outcome, intent_response) ==
    IF outcome.ok
      THEN [ llm_api |-> Some(outcome.api),
             tools |-> Some([ i \in 1..Len(outcome.api.tools) |->
                                FormatTool(outcome.api.tools[i], outcome.api.custom_serializer) ]),
             intent_response |-> intent_response ]
      ELSE [ llm_api |-> None,
             tools |-> None,
             intent_response |-> SetError("unknown", ApiErrorText(outcome.err)) ]

\* Variant: the except branch records the error and falls back to the API's
\* prompt fragment.
GeneratePromptFallsBack(outcome, llm_api, intent_response) ==
    IF outcome.ok
      THEN [ prompt |-> IF llm_api # None
                          THEN Some(<< outcome.text, "\n", llm_api[1].api_prompt >>)
                          ELSE None,
             intent_response |-> intent_response ]
      ELSE [ prompt |-> IF llm_api # None THEN Some(<< llm_api[1].api_prompt >>) ELSE None,
             intent_response |-> SetError("unknown", TemplateErrorText(outcome.err)) ]

\* The try/except of _generate_prompt on the outcome of the render.
GeneratePrompt(outcome, llm_api, intent_response) ==
    IF outcome.ok
      THEN [ prompt |-> IF llm_api # None
                          THEN Some(<< outcome.text, "\n", llm_api[1].api_prompt >>)
                          ELSE None,
             intent_response |-> intent_response ]
      ELSE [ prompt |-> None,
             intent_response |-> SetError("unknown", TemplateErrorText(outcome.err)) ]

\* A result built without the id it was given.
CreateConversationResultNoId(intent_response, conversation_id) ==
    [ response |-> intent_response, conversation_id |-> "" ]

\* _create_conversation_result(intent_response, conversation_id)
CreateConversationResult(intent_response, conversation_id) ==
    [ response |-> intent_response, conversation_id |-> conversation_id ]

\* Variant: messages.insert(0, response).
MessagesInsertFirst(h, ref, response) == [ h EXCEPT ![ref] = << response >> \o @ ]

\* messages.append(response) on the list `ref`.
MessagesAppend(h, ref, response) == [ h EXCEPT ![ref] = Append(@, response) ]

\* Variant: self.history.setdefault(conversation_id, messages)
HistoryPutIfAbsent(hist, conversation_id, ref) ==
    [ id \in DOMAIN hist \cup {conversation_id} |->
        IF id \in DOMAIN hist THEN hist[id] ELSE ref ]

\* Variant: the dict is replaced by one that holds this entry alone.
HistoryPutAlone(hist, conversation_id, ref) ==
    [ id \in { conversation_id } |-> ref ]

\* self.history[conversation_id] = messages
HistoryPut(hist, conversation_id, ref) ==
    [ id \in DOMAIN hist \cup {conversation_id} |->
        IF id = conversation_id THEN ref ELSE hist[id] ]

\* Variant: the transcript is stored in the except branch too.
GenerateResponseRoundStoresOnError(outcome, h, hist, conversation_id, ref, intent_response) ==
    [ heap |-> IF outcome.ok THEN MessagesAppend(h, ref, outcome.message) ELSE h,
      history |-> HistoryPut(hist, conversation_id, ref),
      intent_response |-> IF outcome.ok THEN intent_response
                          ELSE SetError("unknown", ProviderErrorText(outcome.err)) ]

\* One round of the loop of _generate_response once the completion call has
\* come back: the rest of the try block, or the except branch.
GenerateResponseRound(outcome, h, hist, conversation_id, ref, intent_response) ==
    IF outcome.ok
      THEN [ heap |-> MessagesAppend(h, ref, outcome.message),
             history |-> HistoryPut(hist, conversation_id, ref),
             intent_response |-> intent_response ]
      ELSE [ heap |-> h,
             history |-> hist,
             intent_response |-> SetError("unknown", ProviderErrorText(outcome.err)) ]

\* ------------------------------------------------------------- __init__.py
\* DOMAIN, the domain of the integration (DOMAIN is a reserved word here).
INTEGRATION_DOMAIN == "openai_conversation"

\* The config entries of the host: one of this integration and one of another.
ConfigEntries ==
    { [ entry_id |-> "test_entry_id", domain |-> INTEGRATION_DOMAIN ],
      [ entry_id |-> "other_entry_id", domain |-> "buienradar" ] }

\* call.data["config_entry"]: the id of either entry, or of none.
EntryIds == { e.entry_id : e \in ConfigEntries } \cup { "removed_entry_id" }

\* hass.config_entries.async_get_entry(entry_id)
AsyncGetEntry(entry_id) ==
    IF \E e \in ConfigEntries : e.entry_id = entry_id
      THEN Some(CHOOSE e \in ConfigEntries : e.entry_id = entry_id)
      ELSE None

\* Variant: only a missing entry is refused.
InvalidConfigEntryMissingOnly(entry) == entry = None

\* `entry is None or entry.domain != DOMAIN`
InvalidConfigEntry(entry) == entry = None \/ entry[1].domain # INTEGRATION_DOMAIN

\* Outcome of awaiting client.images.generate: response.data[0] or an
\* OpenAIError.
ImageOutcomes ==
    { [ ok |-> TRUE,
        image |-> [ url |-> "https://images/1.png", revised_prompt |-> "a cat",
                    b64_json |-> None ],
        err |-> "" ],
      [ ok |-> FALSE,
        image |-> [ url |-> "", revised_prompt |-> "", b64_json |-> None ],
        err |-> "rate limit" ] }

\* response.data[0].model_dump(exclude={"b64_json"})
ModelDump(image) == [ k \in DOMAIN image \ { "b64_json" } |-> image[k] ]

\* One call of render_image: the entry id it was given, the image requests
\* it issued, what it raised and what it returned.
IdleService ==
    [ pc |-> "idle", config_entry |-> "", requests |-> 0, raised |-> None,
      response |-> None ]

\* RECOMMENDED_BASE_URL of const.py
RECOMMENDED_BASE_URL == "RECOMMENDED_BASE_URL"

\* The config entries async_setup_entry is given: entry.data with the base
\* URL, the API key and, or not, CONF_ENABLE_MEMORY; entry.options with or
\* without a base URL of its own.
SetupEntries ==
    { [ data |-> [ base_url |-> RECOMMENDED_BASE_URL, api_key |-> "sk-test",
                   enable_memory |-> m ],
        options |-> [ base_url |-> u ] ] :
        m \in { None, Some(TRUE) },
        u \in { None, Some(RECOMMENDED_BASE_URL), Some("http://letta.local:8283") } }

\* The first try block of async_setup_entry: the base URL of the options, or,
\* on KeyError, of the data, and the timeout that goes with it.
SetupBaseUrl(entry) ==
    IF entry.options.base_url # None
      THEN [ base_url |-> entry.options.base_url[1],
             timeout_duration |-> IF entry.options.base_url[1] # RECOMMENDED_BASE_URL
                                    THEN 6 ELSE 10 ]
      ELSE [ base_url |-> entry.data.base_url, timeout_duration |-> 10 ]

\* One call of async_setup_entry: its entry and locals, the outcome of the
\* backend check, entry.runtime_data, whether the platforms were forwarded,
\* and what the call returned or raised.
IdleSetup ==
    [ pc |-> "idle", entry |-> None, base_url |-> None, timeout_duration |-> None,
      check |-> None, runtime_data |-> None, forwarded |-> FALSE,
      returned |-> None, raised |-> None ]

\* Status codes of the responses of the backend.
StatusCodes == { 200, 204, 404 }

\* Outcome of awaiting list_LLM_backends: a Response, or the refused
\* connection the executor job raised.
BackendOutcomes ==
    { [ raised |-> None, status_code |-> c ] : c \in StatusCodes }
        \cup { [ raised |-> Some("ConnectionRefusedError"), status_code |-> 0 ] }

\* async_result.raise_for_status(): requests raises HTTPError for the 4xx
\* and 5xx codes and returns for every other.
RaiseForStatus(status_code) == 400 <= status_code /\ status_code < 600

\* Outcome of listing the models of the provider on the default path.
ModelsOutcomes ==
    { [ ok |-> TRUE, err |-> "" ],
      [ ok |-> FALSE, err |-> "AuthenticationError" ],
      [ ok |-> FALSE, err |-> "OpenAIError" ] }

\* await hass.config_entries.async_forward_entry_setups(entry, PLATFORMS);
\* return True
ForwardEntrySetups(s) ==
    [ s EXCEPT !.pc = "returned", !.forwarded = TRUE, !.returned = Some(TRUE) ]

\* The memory-enabled branch of async_setup_entry once list_LLM_backends has
\* come back.  `exceptions` is a local name of the function, bound by the
\* import that follows raise_for_status() alone: when raise_for_status()
\* raises, the clause `except exceptions.HTTPError` reads the unbound local
\* and the call ends with UnboundLocalError.  Nothing assigns
\* entry.runtime_data on this branch.
AsyncSetupEntryAfterBackends(s, outcome) ==
    LET c == [ s EXCEPT !.check = Some(outcome) ]
    IN  IF outcome.raised = Some("ConnectionRefusedError")
          THEN [ c EXCEPT !.pc = "raised", !.raised = Some("ConfigEntryNotReady") ]
          ELSE IF outcome.status_code # 200 /\ RaiseForStatus(outcome.status_code)
                 THEN [ c EXCEPT !.pc = "raised", !.raised = Some("UnboundLocalError") ]
                 ELSE ForwardEntrySetups(c)

\* The default branch of async_setup_entry once the models were listed, or
\* listing them failed.
AsyncSetupEntryAfterModels(s, outcome) ==
    LET c == [ s EXCEPT !.check = Some(outcome) ]
    IN  IF outcome.ok
          THEN ForwardEntrySetups(
                 [ c EXCEPT !.runtime_data =
                     Some([ base_url |-> s.base_url[1],
                            api_key |-> s.entry[1].data.api_key ]) ])
          ELSE IF outcome.err = "AuthenticationError"
                 THEN [ c EXCEPT !.pc = "returned", !.returned = Some(FALSE) ]
                 ELSE [ c EXCEPT !.pc = "raised", !.raised = Some("ConfigEntryNotReady") ]

\* ------------------------------------------------------------ letta_api.py
DEFAULT_LETTA_URL == "http://localhost:8283"

\* DEFAULT_TIMEOUT = 6.0 (seconds)
DEFAULT_TIMEOUT == 6

\* Helper calls a behaviour makes at most.
MaxLettaCalls == 2

\* Variant: a timeout of None is handed to requests as it is.
GetRequestNoDefault(url, headers, timeout) ==
    [ method |-> "GET", url |-> url, headers |-> headers, json |-> None,
      timeout |-> timeout ]

\* _get_request(url, headers, timeout): the request it makes.
GetRequest(url, headers, timeout) ==
    [ method |-> "GET", url |-> url, headers |-> headers, json |-> None,
      timeout |-> IF timeout = None THEN Some(DEFAULT_TIMEOUT) ELSE timeout ]

\* _post_request(url, headers, payload, timeout): the request it makes.
PostRequest(url, headers, payload, timeout) ==
    [ method |-> "POST", url |-> url, headers |-> headers, json |-> payload,
      timeout |-> IF timeout = None THEN Some(DEFAULT_TIMEOUT) ELSE timeout ]

\* The parameter `timeout: float | None = DEFAULT_TIMEOUT` of the three
\* helpers: the argument, or the default when the caller passes none.
TimeoutParameter(kwargs) ==
    IF "timeout" \in DOMAIN kwargs THEN kwargs.timeout ELSE Some(DEFAULT_TIMEOUT)

\* `if base_url is None: base_url = DEFAULT_LETTA_URL`
BaseUrlOrDefault(base_url) == IF base_url = None THEN DEFAULT_LETTA_URL ELSE base_url[1]

\* `{agent_id}` in an f-string.
Formatted(value) == IF value = None THEN "None" ELSE value[1]

\* list_LLM_backends(hass, base_url, headers, timeout): the one executor job
\* it awaits, as the request the job makes.
ListLLMBackends(kwargs) ==
    GetRequest(<< BaseUrlOrDefault(kwargs.base_url), "/v1/models/" >>,
               kwargs.headers, TimeoutParameter(kwargs))

\* list_agents(hass, base_url, user_id, timeout)
ListAgents(kwargs) ==
    GetRequest(<< BaseUrlOrDefault(kwargs.base_url), "/v1/agents/" >>,
               Some([ user_id |-> kwargs.user_id, Authorization |-> "Bearer <token>" ]),
               TimeoutParameter(kwargs))

\* send_message(hass, base_url, user_id, agent_id, data, timeout)
SendMessage(kwargs) ==
    PostRequest(<< BaseUrlOrDefault(kwargs.base_url),
                   "/v1/agents/", Formatted(kwargs.agent_id), "/messages" >>,
                Some([ user_id |-> kwargs.user_id,
                       Authorization |-> "Bearer <token>",
                       Content_Type |-> "application/json" ]),
                kwargs.data, TimeoutParameter(kwargs))

LettaHelpers == { "list_LLM_backends", "list_agents", "send_message" }

\* The request a call of a helper makes.
LettaRequest(helper, kwargs) ==
    CASE helper = "list_LLM_backends" -> ListLLMBackends(kwargs)
      [] helper = "list_agents" -> ListAgents(kwargs)
      [] helper = "send_message" -> SendMessage(kwargs)

\* kwargs with timeout=timeout added.
WithTimeout(kwargs, timeout) ==
    [ k \in DOMAIN kwargs \cup { "timeout" } |->
        IF k = "timeout" THEN timeout ELSE kwargs[k] ]

\* The arguments callers pass to a helper: with and without a base URL, and
\* with no timeout, timeout=None or a timeout of their own.
LettaArguments(helper) ==
    LET plain ==
          { CASE helper = "list_LLM_backends" ->
                   [ base_url |-> b, headers |-> Some([ Authorization |-> "Bearer token" ]) ]
              [] helper = "list_agents" ->
                   [ base_url |-> b, user_id |-> Some("user-1") ]
              [] helper = "send_message" ->
                   [ base_url |-> b, user_id |-> Some("user-1"),
                     agent_id |-> Some("agent-1"),
                     data |-> Some([ message |-> "hello" ]) ] :
            b \in { None, Some("http://letta.local:8283") } }
    IN  plain \cup { WithTimeout(k, t) : k \in plain, t \in { None, Some(3) } }

\* The calls of the helpers so far: how many were made, how many HTTP requests
\* they made, the latest call and the request it made, and, for a call made
\* by itself, where it is and the outcome it returned.
IdleLetta ==
    [ pc |-> "idle", calls |-> 0, requests |-> 0, call |-> None, request |-> None,
      response |-> None ]

\* A helper is called: it hands its one job to the executor.
LettaIssue(l, helper, kwargs) ==
    [ l EXCEPT !.calls = @ + 1,
               !.requests = @ + 1,
               !.call = Some([ helper |-> helper, kwargs |-> kwargs ]),
               !.request = Some(LettaRequest(helper, kwargs)) ]

\* ------------------------------------------------------------------ frames
\* The locals of one async_process call, and what a test double of each
\* collaborator observes of it (at_start, loaded, calls, sent, user, raised,
\* response, tool_calls, writes, stored).
IdleFrame ==
    [ pc |-> "idle",
      supplied |-> None,         \* user_input.conversation_id
      conversation_id |-> "",
      resolved |-> "",           \* the id _initialize_conversation returned
      messages |-> 0,            \* reference of the list `messages` names
      llm_api |-> None,
      tools |-> None,
      prompt |-> None,
      intent_response |-> NewIntentResponse,
      iteration |-> 0,           \* _iteration
      result |-> None,           \* what async_process returned
      at_start |-> None,         \* history.get(supplied id) when the call began
      loaded |-> << >>,          \* elements of `messages` when it was loaded
      lookups |-> 0,             \* llm.async_get_api calls issued
      renders |-> 0,             \* Template.async_render calls issued
      calls |-> 0,               \* completion calls issued
      sent |-> << >>,            \* messages= of the latest completion call
      user |-> None,             \* user= of the latest completion call
      params |-> None,           \* its model=, max_tokens=, top_p=, temperature=
      raised |-> None,           \* the error a collaborator raised
      response |-> None,         \* the message the latest completion returned
      tool_calls |-> FALSE,      \* whether that message requests tool calls
      writes |-> 0,              \* steps of this call that changed the Store
      stored |-> None ]          \* history.get(conversation_id) when it returned

\* A call that returned or was cancelled has no frame any more.
GoneFrame(pc) == [ IdleFrame EXCEPT !.pc = pc ]

Awaiting == { "await_api", "await_render", "await_model" }

\* `return self._create_conversation_result(...)`
Return(f) ==
    [ f EXCEPT !.pc = "done",
               !.result = Some(CreateConversationResult(f.intent_response, f.conversation_id)) ]

\* Variant: the call is tagged with the id the caller supplied.
IssueCompletionUserSupplied(f, h) ==
    IF f.iteration < MAX_TOOL_ITERATIONS
      THEN [ f EXCEPT !.pc = "await_model",
                      !.calls = @ + 1,
                      !.sent = h[f.messages],
                      !.user = f.supplied,
                      !.params = Some(CompletionParams(options)) ]
      ELSE [ f EXCEPT !.pc = "done", !.result = None ]

\* Variant: the rendered prompt is sent as a system message ahead of the
\* transcript.
IssueCompletionSendsPrompt(f, h) ==
    IF f.iteration < MAX_TOOL_ITERATIONS
      THEN [ f EXCEPT !.pc = "await_model",
                      !.calls = @ + 1,
                      !.sent = << [ role |-> "system", content |-> f.prompt ] >>
                                  \o h[f.messages],
                      !.user = Some(f.conversation_id),
                      !.params = Some(CompletionParams(options)) ]
      ELSE [ f EXCEPT !.pc = "done", !.result = None ]

\* The first statement of the loop body of _generate_response: the completion
\* call is issued with messages=messages, user=conversation_id and the
\* generation parameters read from the options at that moment.  Falling
\* out of the loop returns None.
IssueCompletion(f, h) ==
    IF f.iteration < MAX_TOOL_ITERATIONS
      THEN [ f EXCEPT !.pc = "await_model",
                      !.calls = @ + 1,
                      !.sent = h[f.messages],
                      !.user = Some(f.conversation_id),
                      !.params = Some(CompletionParams(options)) ]
      ELSE [ f EXCEPT !.pc = "done", !.result = None ]

\* Variant: a message that requests tool calls sends the loop round again.
AfterRoundRunsTools(f, outcome, h) ==
    IF outcome.ok /\ outcome.tool_calls
      THEN IssueCompletion([ f EXCEPT !.iteration = @ + 1 ], h)
      ELSE Return(f)

\* Variant: the except branch goes round the loop again instead of returning.
AfterRoundRetries(f, outcome, h) ==
    IF outcome.ok
      THEN Return(f)
      ELSE IssueCompletion([ f EXCEPT !.iteration = @ + 1 ], h)

\* Variant: the except branch leaves the loop without returning a result.
AfterRoundBreaksOnError(f, outcome, h) ==
    IF outcome.ok
      THEN Return(f)
      ELSE [ f EXCEPT !.pc = "done", !.result = None ]

\* How a round of the loop ends once the completion call has come back and
\* its outcome is dealt with: the try block and the except branch both
\* return the result, whatever the message asks for.
AfterRound(f, outcome, h) == Return(f)

\* Conversation ids the host may pass: none, one of its own making, a ULID
\* from elsewhere, the id of a stored conversation (the call that stored it
\* returned that id), or the id the latest call returned.
SuppliedIds ==
    { None }
        \cup { Some(i) : i \in CustomIds \cup ExternalUlids \cup DOMAIN history }
        \cup { Some(r.conversation_id) : r \in { last.result[i] : i \in DOMAIN last.result } }

\* What a collaborator raised: who and what.
Raised(by, err) == Some([ by |-> by, err |-> err ])

\* Call t moves to frame f in a step that takes the dict and the lists to
\* hist and h; a frame that has returned is kept as `last`.
Settle(t, f, hist, h) ==
    LET g == [ f EXCEPT !.writes = IF StoreOf(hist, h) # Store THEN @ + 1 ELSE @,
                        !.stored = IF f.pc = "done"
                                     THEN StoreGetOf(hist, h, f.conversation_id)
                                     ELSE @ ]
    IN  IF g.pc = "done"
          THEN /\ turn' = [ turn EXCEPT ![t] = GoneFrame("done") ]
               /\ last' = g
          ELSE /\ turn' = [ turn EXCEPT ![t] = g ]
               /\ UNCHANGED last

Init ==
    /\ options \in { BareOptions(a) : a \in ApiOptions }
    /\ history = << >>
    /\ heap = [ r \in Turns |-> << >> ]
    /\ ulidClock = 0
    /\ turn = [ t \in Turns |-> IdleFrame ]
    /\ last = IdleFrame
    /\ service = IdleService
    /\ setup = IdleSetup
    /\ letta = IdleLetta

\* Variant: messages = list(self.history.get(conversation_id, [])): every
\* turn works on a copy, list t, of what is stored under the id.
BeginLoadsCopy(t, supplied) ==
    /\ turn[t].pc = "idle"
    /\ \A u \in Turns : u < t => turn[u].pc # "idle"
    /\ LET resolved == HandleInvalidConversationId(supplied, ulidClock)
           copied == [ heap EXCEPT ![t] = heap[HistoryGet(resolved.id, t)] ]
           f == [ turn[t] EXCEPT !.supplied = supplied,
                                 !.conversation_id = resolved.id,
                                 !.resolved = resolved.id,
                                 !.messages = t,
                                 !.intent_response = NewIntentResponse,
                                 !.at_start = IF supplied = None THEN None
                                              ELSE StoreGet(supplied[1]),
                                 !.loaded = copied[t] ]
       IN  /\ ulidClock' = resolved.clock
           /\ heap' = copied
           /\ Settle(t, IF ApiConfigured(options)
                          THEN [ f EXCEPT !.pc = "await_api", !.lookups = @ + 1 ]
                          ELSE Return(f), history, copied)
    /\ UNCHANGED << options, history, service, setup, letta >>

\* async_process up to its first suspension: _initialize_conversation, the
\* IntentResponse, and _setup_llm_api up to `await llm.async_get_api`; with no
\* API configured _setup_llm_api returns (None, None) without suspending and
\* async_process returns at once.  The list a turn creates is reference t.
Begin(t, supplied) ==
    /\ turn[t].pc = "idle"
    /\ \A u \in Turns : u < t => turn[u].pc # "idle"
    /\ LET resolved == HandleInvalidConversationId(supplied, ulidClock)
           ref == HistoryGet(resolved.id, t)
           f == [ turn[t] EXCEPT !.supplied = supplied,
                                 !.conversation_id = resolved.id,
                                 !.resolved = resolved.id,
                                 !.messages = ref,
                                 !.intent_response = NewIntentResponse,
                                 !.at_start = IF supplied = None THEN None
                                              ELSE StoreGet(supplied[1]),
                                 !.loaded = heap[ref] ]
       IN  /\ ulidClock' = resolved.clock
           /\ Settle(t, IF ApiConfigured(options)
                          THEN [ f EXCEPT !.pc = "await_api", !.lookups = @ + 1 ]
                          ELSE Return(f), history, heap)
    /\ UNCHANGED << options, history, heap, service, setup, letta >>

\* llm.async_get_api comes back: the rest of _setup_llm_api, the llm_api
\* check of async_process, and _generate_prompt up to its suspension.
\* _generate_prompt awaits the user lookup (when the context names a user)
\* and then the render; it reads and writes nothing of the entity between
\* the two, so "await_render" stands for being suspended at either.
ApiReturn(t, outcome) ==
    /\ turn[t].pc = "await_api"
    /\ LET s == SetupLlmApi(outcome, turn[t].intent_response)
           f == [ turn[t] EXCEPT !.llm_api = s.llm_api,
                                 !.tools = s.tools,
                                 !.intent_response = s.intent_response,
                                 !.raised = IF outcome.ok THEN @
                                            ELSE Raised("api", outcome.err) ]
       IN  Settle(t, IF f.llm_api = None
                       THEN Return(f)
                       ELSE [ f EXCEPT !.pc = "await_render", !.renders = @ + 1 ],
                  history, heap)
    /\ UNCHANGED << options, history, heap, ulidClock, service, setup, letta >>

\* The render comes back: the rest of _generate_prompt, the prompt check of
\* async_process, and _generate_response up to the completion call.
RenderReturn(t, outcome) ==
    /\ turn[t].pc = "await_render"
    /\ LET g == GeneratePrompt(outcome, turn[t].llm_api, turn[t].intent_response)
           f == [ turn[t] EXCEPT !.prompt = g.prompt,
                                 !.intent_response = g.intent_response,
                                 !.raised = IF outcome.ok THEN @
                                            ELSE Raised("template", outcome.err) ]
       IN  Settle(t, IF f.prompt = None THEN Return(f) ELSE IssueCompletion(f, heap),
                  history, heap)
    /\ UNCHANGED << options, history, heap, ulidClock, service, setup, letta >>

\* The completion call comes back: the rest of the loop body, which returns
\* on both branches.
ModelReturn(t, outcome) ==
    /\ turn[t].pc = "await_model"
    /\ LET f == turn[t]
           r == GenerateResponseRound(outcome, heap, history, f.conversation_id,
                                      f.messages, f.intent_response)
       IN  /\ heap' = r.heap
           /\ history' = r.history
           /\ Settle(t, AfterRound([ f EXCEPT !.intent_response = r.intent_response,
                                             !.raised = IF outcome.ok THEN @
                                                        ELSE Raised("provider", outcome.err),
                                             !.response = IF outcome.ok
                                                            THEN Some(outcome.message)
                                                            ELSE @,
                                             !.tool_calls = outcome.tool_calls ],
                                    outcome, r.heap),
                     r.history, r.heap)
    /\ UNCHANGED << options, ulidClock, service, setup, letta >>

\* Variant: the call is suspended between messages.append(response) and the
\* put, and the cancellation lands there.
CancelAfterAppend(t) ==
    /\ turn[t].pc = "await_model"
    /\ heap' = MessagesAppend(heap, turn[t].messages, Message(t, turn[t].iteration))
    /\ turn' = [ turn EXCEPT ![t] = GoneFrame("cancelled") ]
    /\ UNCHANGED << options, history, ulidClock, last, service, setup, letta >>

\* The host cancels the call while it is suspended: nothing of it runs again.
Cancel(t) ==
    /\ turn[t].pc \in Awaiting
    /\ turn' = [ turn EXCEPT ![t] = GoneFrame("cancelled") ]
    /\ UNCHANGED << options, history, heap, ulidClock, last, service, setup, letta >>

Next ==
    \E t \in Turns :
        \/ \E supplied \in SuppliedIds : Begin(t, supplied)
        \/ \E outcome \in ApiOutcomes : ApiReturn(t, outcome)
        \/ \E outcome \in RenderOutcomes : RenderReturn(t, outcome)
        \/ \E outcome \in ModelOutcomes(t, turn[t].iteration) : ModelReturn(t, outcome)
        \/ Cancel(t)

Spec == Init /\ [][Next]_vars

\* ------------------------------------------------- one utterance at a time
\* An entry with any combination of the generation options, driven by a host
\* that starts a call only when no other call of the agent is under way.
InitAnyOptions ==
    /\ options \in AllOptions
    /\ history = << >>
    /\ heap = [ r \in Turns |-> << >> ]
    /\ ulidClock = 0
    /\ turn = [ t \in Turns |-> IdleFrame ]
    /\ last = IdleFrame
    /\ service = IdleService
    /\ setup = IdleSetup
    /\ letta = IdleLetta

Quiet == \A u \in Turns : turn[u].pc \notin Awaiting

NextSequential ==
    \E t \in Turns :
        \/ \E supplied \in SuppliedIds : Quiet /\ Begin(t, supplied)
        \/ \E outcome \in ApiOutcomes : ApiReturn(t, outcome)
        \/ \E outcome \in RenderOutcomes : RenderReturn(t, outcome)
        \/ \E outcome \in ModelOutcomes(t, turn[t].iteration) : ModelReturn(t, outcome)
        \/ Cancel(t)

SpecSequential == InitAnyOptions /\ [][NextSequential]_vars

\* ----------------------------------------------------- methods called alone
\* A caller that holds the entity calls _generate_prompt by itself, as the
\* unit tests do, with whatever llm_api it likes; the call touches nothing of
\* the entity, and `last` keeps what went in and what came back.
GeneratePromptCalled(llm_api, outcome) ==
    /\ LET g == GeneratePrompt(outcome, llm_api, NewIntentResponse)
       IN  last' = [ IdleFrame EXCEPT !.pc = "prompt_returned",
                                      !.llm_api = llm_api,
                                      !.prompt = g.prompt,
                                      !.intent_response = g.intent_response,
                                      !.raised = IF outcome.ok THEN None
                                                 ELSE Raised("template", outcome.err) ]
    /\ UNCHANGED << options, history, heap, ulidClock, turn, service, setup, letta >>

\* The generate_image service is called: render_image up to the image
\* request, or the validation error it raises before any request.
RenderImageCalled(entry_id) ==
    /\ service.pc # "await_image"
    /\ service' =
          IF InvalidConfigEntry(AsyncGetEntry(entry_id))
            THEN [ IdleService EXCEPT
                     !.pc = "raised",
                     !.config_entry = entry_id,
                     !.raised = Some([ error |-> "ServiceValidationError",
                                       translation_key |-> "invalid_config_entry",
                                       config_entry |-> entry_id ]) ]
            ELSE [ IdleService EXCEPT !.pc = "await_image",
                                      !.config_entry = entry_id,
                                      !.requests = 1 ]
    /\ UNCHANGED << options, history, heap, ulidClock, turn, last, setup, letta >>

\* The image request comes back: the rest of render_image.
ImageReturn(outcome) ==
    /\ service.pc = "await_image"
    /\ service' =
          IF outcome.ok
            THEN [ service EXCEPT !.pc = "returned",
                                  !.response = Some(ModelDump(outcome.image)) ]
            ELSE [ service EXCEPT
                     !.pc = "raised",
                     !.raised = Some([ error |-> "HomeAssistantError",
                                       message |-> << "Error generating image: ",
                                                      outcome.err >> ]) ]
    /\ UNCHANGED << options, history, heap, ulidClock, turn, last, setup, letta >>

NextDirect ==
    \/ \E llm_api \in {None} \cup { Some(a) : a \in Apis }, outcome \in RenderOutcomes :
          GeneratePromptCalled(llm_api, outcome)
    \/ \E entry_id \in EntryIds : RenderImageCalled(entry_id)
    \/ \E outcome \in ImageOutcomes : ImageReturn(outcome)

SpecDirect == InitAnyOptions /\ [][NextDirect]_vars

\* ------------------------------------------------ setup and the letta helpers
\* async_setup_entry is called with an entry: up to `await list_LLM_backends`
\* on the memory-enabled branch, up to the await of the models on the other.
SetupEntryCalled(entry) ==
    /\ setup.pc \notin { "await_backends", "await_models" }
    /\ entry.data.enable_memory = Some(TRUE) => letta.calls < MaxLettaCalls
    /\ LET u == SetupBaseUrl(entry)
           s == [ IdleSetup EXCEPT !.entry = Some(entry),
                                   !.base_url = Some(u.base_url),
                                   !.timeout_duration = Some(u.timeout_duration) ]
       IN  IF entry.data.enable_memory = Some(TRUE)
             THEN /\ setup' = [ s EXCEPT !.pc = "await_backends" ]
                  /\ letta' = LettaIssue(letta, "list_LLM_backends",
                                 [ base_url |-> Some(u.base_url),
                                   headers |-> Some([ Authorization |-> "Bearer token" ]) ])
             ELSE /\ setup' = [ s EXCEPT !.pc = "await_models" ]
                  /\ UNCHANGED letta
    /\ UNCHANGED << options, history, heap, ulidClock, turn, last, service >>

\* list_LLM_backends comes back to async_setup_entry.
BackendsReturn(outcome) ==
    /\ setup.pc = "await_backends"
    /\ setup' = AsyncSetupEntryAfterBackends(setup, outcome)
    /\ UNCHANGED << options, history, heap, ulidClock, turn, last, service, letta >>

\* The listing of the models comes back to async_setup_entry.
ModelsReturn(outcome) ==
    /\ setup.pc = "await_models"
    /\ setup' = AsyncSetupEntryAfterModels(setup, outcome)
    /\ UNCHANGED << options, history, heap, ulidClock, turn, last, service, letta >>

\* A caller awaits one of the helpers of letta_api.
LettaCalled(helper, kwargs) ==
    /\ letta.pc = "idle"
    /\ letta.calls < MaxLettaCalls
    /\ letta' = [ LettaIssue(letta, helper, kwargs) EXCEPT !.pc = "await_executor",
                                                           !.response = None ]
    /\ UNCHANGED << options, history, heap, ulidClock, turn, last, service, setup >>

\* Variant: a response that is not a 200 makes the helper send the request
\* once more.
LettaReturnRetries(outcome) ==
    /\ letta.pc = "await_executor"
    /\ letta' = IF outcome.raised = None /\ outcome.status_code # 200
                     /\ letta.requests <= MaxLettaCalls
                  THEN [ letta EXCEPT !.requests = @ + 1 ]
                  ELSE [ letta EXCEPT !.pc = "idle", !.response = Some(outcome) ]
    /\ UNCHANGED << options, history, heap, ulidClock, turn, last, service, setup >>

\* The executor job comes back: the helper returns its Response, whatever its
\* status, or lets the error of the job through.
LettaReturn(outcome) ==
    /\ letta.pc = "await_executor"
    /\ letta' = [ letta EXCEPT !.pc = "idle", !.response = Some(outcome) ]
    /\ UNCHANGED << options, history, heap, ulidClock, turn, last, service, setup >>

NextSetup ==
    \/ \E entry \in SetupEntries : SetupEntryCalled(entry)
    \/ \E outcome \in BackendOutcomes : BackendsReturn(outcome)
    \/ \E outcome \in ModelsOutcomes : ModelsReturn(outcome)
    \/ \E helper \in LettaHelpers : \E kwargs \in LettaArguments(helper) :
          LettaCalled(helper, kwargs)
    \/ \E outcome \in BackendOutcomes : LettaReturn(outcome)

SpecSetup == Init /\ [][NextSetup]_vars

\* ================================================================== claims
\* The frames the claims speak of: the calls under way and the call that
\* returned last.  Every call that returns is `last` when it returns.
Started == { turn[t] : t \in { u \in Turns : turn[u].pc \in Awaiting } }

Finished == IF last.pc = "done" THEN { last } ELSE { }

Frames == Started \cup Finished

Elements(seq) == { seq[i] : i \in DOMAIN seq }

FailedBy(f, who) == f.raised # None /\ f.raised[1].by = who

\* C1: a supplied conversation id that fails ULID validation is replaced by a
\* newly generated id, different from the supplied one, and the turn starts
\* with an empty transcript.
C1_InvalidIdReplaced ==
    \A f \in Frames :
        (f.supplied # None /\ ~IsValidUlid(f.supplied[1]))
            => /\ f.conversation_id # f.supplied[1]
               /\ IsValidUlid(f.conversation_id)
               /\ f.loaded = << >>

\* C2: a supplied conversation id that passes ULID validation is reused: the
\* resolved id and the id of the result are the supplied id, and the
\* transcript loaded is the one stored under it.
C2_ValidIdReused ==
    \A f \in Frames :
        (f.supplied # None /\ IsValidUlid(f.supplied[1]))
            => /\ f.conversation_id = f.supplied[1]
               /\ f.result # None => f.result[1].conversation_id = f.supplied[1]
               /\ f.loaded = (IF f.at_start = None THEN << >> ELSE f.at_start[1])

\* C3: a turn given the id of a conversation a successful turn stored loads
\* the transcript that turn stored, and when it succeeds the transcript stored
\* under the id it returns is that transcript followed by its own message.
C3_HistoryAcrossTurns ==
    \A f \in Frames :
        (f.supplied # None /\ f.at_start # None)
            => /\ f.loaded = f.at_start[1]
               /\ (f.pc = "done" /\ f.response # None)
                    => /\ f.stored # None
                       /\ Len(f.stored[1]) > Len(f.at_start[1])
                       /\ SubSeq(f.stored[1], 1, Len(f.at_start[1])) = f.at_start[1]
                       /\ f.stored[1][Len(f.stored[1])] = f.response[1]

\* C4: for a valid supplied id that has a stored transcript, the messages
\* passed to the completion call are exactly the transcript stored under that
\* id when the turn began.
C4_SentIsStoredTranscript ==
    \A f \in Frames :
        (f.calls > 0 /\ f.supplied # None /\ IsValidUlid(f.supplied[1]) /\ f.at_start # None)
            => f.sent = f.at_start[1]

\* C5: right after a turn whose completion succeeded, the transcript stored
\* under the id the turn returned ends with the message that completion gave.
C5_StoredEndsWithResponse ==
    \A f \in Finished :
        f.response # None
            => /\ f.result # None
               /\ StoreGetOf(history, heap, f.result[1].conversation_id) # None
               /\ f.stored # None
               /\ Len(f.stored[1]) > 0
               /\ f.stored[1][Len(f.stored[1])] = f.response[1]

\* C5 witness: a turn succeeded on a conversation that already had a message.
C5_Witness ==
    \E f \in Finished : f.response # None /\ f.stored # None /\ Len(f.stored[1]) >= 2

\* C6: with no capability API configured a turn builds its prompt from the
\* base instructions alone, issues exactly one completion call, the stored
\* transcript gains exactly one message, and the result has no error.
C6_NoApiTurnCompletes ==
    \A f \in Finished :
        ~ApiConfigured(options)
            => /\ f.prompt = Some(<< "Rendered prompt" >>)
               /\ f.calls = 1
               /\ f.stored # None
               /\ Len(f.stored[1]) = Len(f.loaded) + 1
               /\ f.result # None
               /\ f.result[1].response.response_type # "error"

\* C7: a turn whose capability lookup failed issues no completion call.
C7_NoCallAfterApiFailure ==
    \A f \in Frames : FailedBy(f, "api") => (f.calls = 0 /\ f.pc # "await_model")

\* C7 witness: a turn returned after its capability lookup failed.
C7_Witness ==
    \E f \in Finished : FailedBy(f, "api") /\ f.calls = 0

\* C8: when the configured capability lookup raises, the turn returns an
\* error result whose text contains the raised message, no step of the turn
\* changed the Store, and the result carries the id resolved at the start.
C8_ApiFailureResult ==
    \A f \in Finished :
        FailedBy(f, "api")
            => /\ ApiConfigured(options)
               /\ f.result # None
               /\ f.result[1].response.response_type = "error"
               /\ f.result[1].response.speech # None
               /\ f.raised[1].err \in Elements(f.result[1].response.speech[1])
               /\ f.writes = 0
               /\ f.result[1].conversation_id = f.conversation_id

\* C8 witness: a lookup that raised "quota exceeded" ended a turn.
C8_Witness ==
    \E f \in Finished :
        /\ FailedBy(f, "api")
        /\ f.raised[1].err = "quota exceeded"
        /\ f.result # None

\* C9: when the completion call fails in the first round, no step of the turn
\* has changed the Store: no transcript of any id was written.
C9_NoWriteOnProviderFailure ==
    \A f \in Finished :
        (FailedBy(f, "provider") /\ f.iteration = 0)
            => /\ f.writes = 0
               /\ f.response = None

\* C9 witness: a completion failed in a turn on a conversation with a stored
\* transcript.
C9_Witness ==
    \E f \in Finished :
        FailedBy(f, "provider") /\ f.iteration = 0 /\ f.calls = 1 /\ Len(f.loaded) > 0

\* C10: when the completion call raises, the result is an error whose text is
\* one fixed message, whatever was raised; the raised detail is not in it.
C10_GenericProviderError ==
    \A f \in Finished :
        FailedBy(f, "provider")
            => /\ f.result # None
               /\ f.result[1].response.response_type = "error"
               /\ f.result[1].response.speech
                    = Some(<< "An error occurred while generating the response." >>)
               /\ \A d \in ErrDetails : d \notin Elements(f.result[1].response.speech[1])

\* C10 witness: each of the provider errors has ended a turn.
C10_Witness ==
    \E f \in Finished : FailedBy(f, "provider") /\ f.raised[1].err = "invalid api key sk-live"

\* C11: every turn that ends with an error (capability lookup, template or
\* provider) returns a result whose conversation id passes ULID validation,
\* whatever id the caller supplied.
C11_ErrorResultHasValidId ==
    \A f \in Finished :
        f.raised # None
            => /\ f.result # None
               /\ IsValidUlid(f.result[1].conversation_id)

\* C12: the id is resolved once, when the turn starts, and never changes: the
\* turn keeps it while it is under way, passes it to the completion call, and
\* the result returned on every exit (success, capability failure, template
\* failure, provider failure) carries exactly that id.
C12_ResultCarriesResolvedId ==
    /\ \A f \in Frames :
          /\ f.conversation_id = f.resolved
          /\ f.user # None => f.user = Some(f.resolved)
    /\ \A f \in Finished :
          /\ f.result # None
          /\ f.result[1].conversation_id = f.resolved

C12_Witness ==
    /\ last.pc = "done"
    /\ FailedBy(last, "provider")
    /\ last.supplied # None
    /\ last.resolved # last.supplied[1]
    /\ last.result # None
    /\ last.result[1].conversation_id = last.resolved

\* C13: each of the four generation parameters of a completion call (model,
\* max tokens, top-p, temperature) is the configured option when the options
\* hold it and the recommended default when they do not, whatever the other
\* three options are.
C13_GenerationParameters ==
    \A f \in Frames :
        f.calls > 0
            => /\ f.params # None
               /\ f.params[1].model =
                      IF options.chat_model # None THEN options.chat_model[1]
                      ELSE RECOMMENDED_CHAT_MODEL
               /\ f.params[1].max_tokens =
                      IF options.max_tokens # None THEN options.max_tokens[1]
                      ELSE RECOMMENDED_MAX_TOKENS
               /\ f.params[1].top_p =
                      IF options.top_p # None THEN options.top_p[1]
                      ELSE RECOMMENDED_TOP_P
               /\ f.params[1].temperature =
                      IF options.temperature # None THEN options.temperature[1]
                      ELSE RECOMMENDED_TEMPERATURE

C13_Witness ==
    \E f \in Frames :
        /\ f.calls > 0
        /\ options.chat_model = None
        /\ options.max_tokens # None
        /\ options.top_p = None
        /\ options.temperature # None
        /\ f.params[1].top_p = RECOMMENDED_TOP_P
        /\ f.params[1].temperature = options.temperature[1]

\* C14: when the render succeeds the prompt is the rendered base instructions
\* joined by a newline with the API's prompt fragment when an API is present,
\* and the rendered base instructions alone, still a prompt and not an absent
\* value, when there is no API.
C14_PromptWithoutApi ==
    (last.pc = "prompt_returned" /\ last.raised = None)
        => \E text \in { o.text : o \in { r \in RenderOutcomes : r.ok } } :
              last.prompt = IF last.llm_api # None
                              THEN Some(<< text, "\n", last.llm_api[1].api_prompt >>)
                              ELSE Some(<< text >>)

\* C15: when the render raises a template error the turn records a structured
\* error (code unknown, text naming the error) and ends at once: it is not
\* left under way, it issued no completion call, and no step of it changed
\* the Store.
C15_TemplateErrorEndsTurn ==
    \A f \in Frames :
        FailedBy(f, "template")
            => /\ f.pc = "done"
               /\ f.result # None
               /\ f.result[1].response.response_type = "error"
               /\ f.result[1].response.error_code = Some("unknown")
               /\ f.result[1].response.speech = Some(TemplateErrorText(f.raised[1].err))
               /\ f.calls = 0
               /\ f.sent = << >>
               /\ f.response = None
               /\ f.writes = 0

\* C15 witness: a template error ended a turn on a conversation that has a
\* stored transcript.
C15_Witness ==
    /\ last.pc = "done"
    /\ FailedBy(last, "template")
    /\ last.stored # None
    /\ last.stored[1] # << >>
    /\ last.stored = StoreGet(last.conversation_id)

\* C16: the loop is bounded by MAX_TOOL_ITERATIONS = 10 rounds and a turn runs
\* exactly one of them: it issues at most one completion call, and once a
\* completion has come back the turn has returned a success result, whether
\* or not the message requests tool calls, without a second call.
C16_OneRoundPerTurn ==
    \A f \in Frames :
        /\ f.iteration = 0
        /\ f.iteration < MAX_TOOL_ITERATIONS
        /\ MAX_TOOL_ITERATIONS = 10
        /\ f.calls <= 1
        /\ f.response # None
              => /\ f.pc = "done"
                 /\ f.calls = 1
                 /\ f.response[1].round = 0
                 /\ f.result # None
                 /\ f.result[1].response.response_type # "error"
                 /\ f.result[1].response.error_code = None

\* C16 witness: a turn whose message requests tool calls returned a success
\* result after its one call.
C16_Witness ==
    /\ last.pc = "done"
    /\ last.response # None
    /\ last.tool_calls
    /\ last.calls = 1
    /\ last.result # None
    /\ last.result[1].response.response_type # "error"

\* C17: no failure is retried: a turn calls the capability lookup, the
\* template render and the completion each at most once, and once one of them
\* has raised the turn has returned, having called nothing after it.
C17_NoRetry ==
    \A f \in Frames :
        /\ f.lookups <= 1
        /\ f.renders <= 1
        /\ f.calls <= 1
        /\ f.raised # None => f.pc = "done"
        /\ FailedBy(f, "api") => (f.lookups = 1 /\ f.renders = 0 /\ f.calls = 0)
        /\ FailedBy(f, "template") => (f.lookups = 1 /\ f.renders = 1 /\ f.calls = 0)
        /\ FailedBy(f, "provider") => (f.lookups = 1 /\ f.renders = 1 /\ f.calls = 1)

\* C17 witness: a completion call failed after the lookup and the render had
\* succeeded, and the turn returned.
C17_Witness ==
    /\ last.pc = "done"
    /\ FailedBy(last, "provider")
    /\ last.lookups = 1
    /\ last.renders = 1
    /\ last.calls = 1

IsPrefix(s, t) == Len(s) <= Len(t) /\ SubSeq(t, 1, Len(s)) = s

\* The step in which call t, resolved to id, returns after a completion that
\* succeeded: it appends the message to its list and puts the list under id.
Puts(t, id) ==
    /\ turn[t].pc = "await_model"
    /\ turn'[t].pc = "done"
    /\ last'.response # None
    /\ turn[t].conversation_id = id

\* C18 as stated: transcripts are append-only under any interleaving of turns:
\* in every step, for every id, the transcript stored before is a prefix of
\* the transcript stored after.
C18_AppendOnly ==
    [][ \A id \in DOMAIN history :
            /\ id \in DOMAIN history'
            /\ IsPrefix(Store[id], Store'[id]) ]_vars

\* C18: transcripts are append-only except for the put of a turn that holds
\* another list than the one stored under its id (an overlapping turn stored
\* or replaced the entry since the turn loaded it): in every step, for every
\* id, the transcript stored before is a prefix of the transcript stored
\* after, or the step is such a put, which replaces the stored transcript by
\* the turn's own list with its message appended.
C18_AppendOnlyUnlessOverwritten ==
    [][ \A id \in DOMAIN history :
            /\ id \in DOMAIN history'
            /\ \/ IsPrefix(Store[id], Store'[id])
               \/ \E t \in Turns :
                     /\ Puts(t, id)
                     /\ history[id] # turn[t].messages
                     /\ history'[id] = turn[t].messages
                     /\ Store'[id] = Append(heap[turn[t].messages], last'.response[1]) ]_vars

\* C18 witness: a stored transcript to which a later turn appended.
C18_Witness ==
    \E id \in DOMAIN history :
        /\ Len(Store[id]) >= 2
        /\ Store[id][1].turn # Store[id][2].turn

\* C19: turns on different ids are independent under any interleaving: a step
\* of a call resolved to one id leaves the transcript stored under every other
\* id as it was (present or absent), and leaves every call under way on
\* another id, and the list that call holds, as they were.
C19_OtherIdsUntouched ==
    [][ \A t \in Turns :
            turn'[t] # turn[t]
                => /\ \A id \in DOMAIN history \cup DOMAIN history' :
                          (turn[t].pc = "idle" \/ id # turn[t].conversation_id)
                              => StoreGetOf(history', heap', id) = StoreGet(id)
                   /\ \A u \in Turns :
                          (/\ u # t
                           /\ turn[u].pc \in Awaiting
                           /\ (turn[t].pc = "idle"
                                  \/ turn[u].conversation_id # turn[t].conversation_id))
                              => /\ turn'[u] = turn[u]
                                 /\ heap'[turn[u].messages] = heap[turn[u].messages] ]_vars

\* C19 witness: a turn stored a transcript under one id while a call on
\* another id, with a transcript of its own stored, was under way.
C19_Witness ==
    \E t \in Turns :
        /\ turn[t].pc \in Awaiting
        /\ last.pc = "done"
        /\ last.response # None
        /\ last.conversation_id # turn[t].conversation_id
        /\ turn[t].conversation_id \in DOMAIN history
        /\ last.conversation_id \in DOMAIN history
        /\ Store[turn[t].conversation_id] = turn[t].loaded

\* C20 as stated: when turns that share an id overlap and succeed, the put of
\* the later one overwrites and does not merge: the transcript stored when a
\* successful turn returns is the transcript the turn loaded plus its own
\* message, without the message of any turn that stored in between.
C20_LaterPutOverwrites ==
    \A f \in Finished :
        f.response # None
            => f.stored = Some(Append(f.loaded, f.response[1]))

\* C20: turns that share an id are not serialized, and the put of a
\* successful turn stores the turn's list, whatever is stored under the id by
\* then.  A turn that loaded the id while nothing was stored under it holds a
\* list of its own, and its put leaves its own message alone under the id
\* (last write wins); a turn that loaded a stored transcript holds the stored
\* list itself, and its put stores what it loaded, every message appended to
\* that list since, and its own message.
C20_LastWriteWinsOnNewIdOnly ==
    [][ \A t \in Turns :
            \A id \in DOMAIN history' :
                Puts(t, id)
                    => /\ history'[id] = turn[t].messages
                       /\ IF turn[t].messages = t
                            THEN /\ turn[t].loaded = << >>
                                 /\ Store'[id] = << last'.response[1] >>
                            ELSE /\ IsPrefix(turn[t].loaded, heap[turn[t].messages])
                                 /\ Store'[id] = Append(heap[turn[t].messages],
                                                        last'.response[1]) ]_vars

\* C20 witness: the turn that returned last stored its own message alone over
\* the transcript an overlapping turn had stored under the same id, which no
\* id leads to any more.
C20_Witness ==
    /\ last.pc = "done"
    /\ last.response # None
    /\ last.loaded = << >>
    /\ DOMAIN history = { last.conversation_id }
    /\ Store[last.conversation_id] = << last.response[1] >>
    /\ \E r \in Turns :
          /\ r # history[last.conversation_id]
          /\ heap[r] # << >>

\* C21: a turn that is suspended (at the capability lookup, the user lookup
\* and render, or the completion call) or was cancelled there has left no
\* partial update: no step of it changed the Store, and no list, stored or
\* not, holds a message of it; the append and the put happen in the one step
\* in which the turn returns.
C21_NoPartialUpdate ==
    /\ \A f \in Started : f.writes = 0 /\ f.response = None
    /\ \A t \in Turns :
          turn[t].pc \in Awaiting \cup { "cancelled" }
              => \A r \in Turns : \A i \in DOMAIN heap[r] : heap[r][i].turn # t

\* C21 witness: a turn was cancelled on a conversation that has a stored
\* transcript, and another turn is suspended at its completion call.
C21_Witness ==
    /\ \E t \in Turns : turn[t].pc = "cancelled"
    /\ \E u \in Turns :
          /\ turn[u].pc = "await_model"
          /\ turn[u].conversation_id \in DOMAIN history
          /\ Store[turn[u].conversation_id] # << >>

\* C22: when the caller supplies a conversation id under which nothing is
\* stored, the turn resolves to that same id and starts with an empty
\* transcript.
C22_UnknownIdKept ==
    \A f \in Frames :
        (f.supplied # None /\ f.at_start = None)
            => /\ f.conversation_id = f.supplied[1]
               /\ f.loaded = << >>

\* C23: every turn that reached the completion stage returns a result, after
\* a completion that succeeded and after one that raised: the exit of
\* _generate_response that returns None is never taken.
C23_CompletionStageReturnsResult ==
    \A f \in Finished :
        f.calls > 0
            => /\ f.result # None
               /\ f.iteration < MAX_TOOL_ITERATIONS
               /\ f.response # None \/ FailedBy(f, "provider")

\* C23 witness: a completion call raised and the turn returned a result.
C23_Witness ==
    /\ last.pc = "done"
    /\ last.calls > 0
    /\ FailedBy(last, "provider")
    /\ last.raised[1].err = "connection reset"
    /\ last.result # None
    /\ last.result[1].response.response_type = "error"

\* C24: a turn whose caller supplies no conversation id resolves to a newly
\* generated id, one that passes validation and has nothing stored under it,
\* and starts with an empty transcript.
C24_NoIdStartsNewConversation ==
    \A f \in Frames :
        f.supplied = None
            => /\ IsValidUlid(f.conversation_id)
               /\ f.at_start = None
               /\ f.loaded = << >>

\* C25: each tool spec carries the tool's name, carries the tool's
\* description when the tool has a non-empty one, and has no description
\* field at all when the description is absent or empty.
C25_FormatToolDescription ==
    \A f \in Frames :
        (f.llm_api # None /\ f.tools # None)
            => /\ Len(f.tools[1]) = Len(f.llm_api[1].tools)
               /\ \A i \in DOMAIN f.tools[1] :
                     LET tool == f.llm_api[1].tools[i]
                         tool_spec == f.tools[1][i].function
                     IN  /\ tool_spec.name = tool.name
                         /\ IF tool.description \in { None, Some("") }
                              THEN "description" \notin DOMAIN tool_spec
                              ELSE /\ "description" \in DOMAIN tool_spec
                                   /\ tool_spec.description = tool.description[1]

\* C25 witness: a turn built specs for a tool with a description, a tool
\* without one and a tool whose description is the empty string.
C25_Witness ==
    \E f \in Frames :
        /\ f.llm_api # None
        /\ f.tools # None
        /\ \E i, j, k \in DOMAIN f.tools[1] :
              /\ f.llm_api[1].tools[i].description = None
              /\ f.llm_api[1].tools[j].description = Some("")
              /\ f.llm_api[1].tools[k].description = Some("Turns on a device")
              /\ "description" \notin DOMAIN f.tools[1][i].function
              /\ "description" \notin DOMAIN f.tools[1][j].function
              /\ f.tools[1][k].function.description = "Turns on a device"

\* C26: a call of the image service whose config-entry reference does not
\* resolve to an entry of this integration raises the validation error
\* without issuing an image request, and an image request is issued only for
\* a reference that resolves to such an entry.
C26_ImageServiceValidation ==
    LET own == { e.entry_id : e \in { x \in ConfigEntries : x.domain = INTEGRATION_DOMAIN } }
    IN  /\ (service.pc # "idle" /\ service.config_entry \notin own)
              => /\ service.pc = "raised"
                 /\ service.raised # None
                 /\ service.raised[1].error = "ServiceValidationError"
                 /\ service.raised[1].config_entry = service.config_entry
                 /\ service.requests = 0
                 /\ service.response = None
        /\ service.requests > 0 => service.config_entry \in own
        /\ (service.pc # "idle" /\ service.config_entry \in own) => service.requests = 1

\* C26 witness: the service was called with the id of an entry of another
\* integration and raised the validation error.
C26_Witness ==
    /\ service.pc = "raised"
    /\ service.config_entry = "other_entry_id"
    /\ service.raised[1].error = "ServiceValidationError"
    /\ service.requests = 0

\* C27: the stages of a turn run one after the other: the capability lookup
\* after the id is resolved and the transcript loaded, the render only after
\* the lookup returned an API, the completion call only after the render
\* returned a prompt, the transcript write only after the completion returned
\* a message; no stage starts after an earlier one raised, and a turn is at
\* one stage at a time.
C27_StagesInOrder ==
    \A f \in Frames :
        /\ f.conversation_id = f.resolved
        /\ f.renders <= f.lookups
        /\ f.calls <= f.renders
        /\ f.writes <= f.calls
        /\ f.pc = "await_api"
              => (f.lookups = 1 /\ f.renders = 0 /\ f.calls = 0 /\ f.writes = 0
                     /\ f.llm_api = None /\ f.raised = None)
        /\ f.pc = "await_render"
              => (f.lookups = 1 /\ f.renders = 1 /\ f.calls = 0 /\ f.writes = 0
                     /\ f.llm_api # None /\ f.prompt = None /\ f.raised = None)
        /\ f.pc = "await_model"
              => (f.lookups = 1 /\ f.renders = 1 /\ f.calls = 1 /\ f.writes = 0
                     /\ f.prompt # None /\ f.response = None /\ f.raised = None)
        /\ f.renders > 0 => ~FailedBy(f, "api")
        /\ f.calls > 0 => (~FailedBy(f, "api") /\ ~FailedBy(f, "template"))
        /\ f.writes > 0 => (f.raised = None /\ f.response # None /\ f.pc = "done")

\* C27 witness: a turn went through all stages and wrote its transcript.
C27_Witness ==
    /\ last.pc = "done"
    /\ last.lookups = 1
    /\ last.renders = 1
    /\ last.calls = 1
    /\ last.writes = 1
    /\ last.raised = None

\* C28: every completion call is tagged with the conversation id resolved for
\* its turn; the result of the turn carries that id, and a turn that stores
\* its transcript stores it under that id.
C28_UserTokenIsResolvedId ==
    \A f \in Frames :
        /\ f.calls > 0 => f.user = Some(f.resolved)
        /\ (f.pc = "done" /\ f.calls > 0)
              => /\ f.result # None
                 /\ f.result[1].conversation_id = f.user[1]
        /\ (f.pc = "done" /\ f.response # None)
              => /\ f.user[1] \in DOMAIN history
                 /\ history[f.user[1]] = f.messages
                 /\ f.stored = Some(Store[f.user[1]])

\* C28 witness: a successful turn on a generated id, which differs from the
\* id the caller supplied.
C28_Witness ==
    /\ last.pc = "done"
    /\ last.response # None
    /\ last.supplied # None
    /\ last.user # last.supplied
    /\ last.user = Some(last.resolved)
    /\ last.resolved \in DOMAIN history

\* C29: the tool specs of a turn are built from the API object the lookup of
\* that turn handed back, one spec per tool of it and in its order, each with
\* the parameter schema of that tool converted by the custom serializer of
\* that same object.
C29_ToolsFromSameApi ==
    \A f \in Frames :
        f.tools # None
            => /\ f.llm_api # None
               /\ f.lookups = 1
               /\ f.llm_api[1] \in ApisNamed(options.llm_hass_api[1])
               /\ Len(f.tools[1]) = Len(f.llm_api[1].tools)
               /\ \A i \in DOMAIN f.tools[1] :
                     /\ f.tools[1][i].function.name = f.llm_api[1].tools[i].name
                     /\ f.tools[1][i].function.parameters =
                            << f.llm_api[1].custom_serializer,
                               f.llm_api[1].tools[i].parameters >>

\* C29 witness: a turn on the second API, after an earlier turn had stored a
\* message, built its one tool spec with the second API's serializer.
C29_Witness ==
    \E f \in Frames :
        /\ f.tools # None
        /\ f.llm_api = Some(ScriptsApi(TRUE))
        /\ f.loaded # << >>
        /\ Len(f.tools[1]) = 1
        /\ f.tools[1][1].function.parameters = << "scripts_serializer", "schema_goodnight" >>

\* C30: the Store changes only when a turn returns after a completion call
\* that succeeded: every step that changes the dict or a list is such a
\* return, it creates or rebinds the entry of the turn's id only, no entry is
\* ever removed, and the step in which a turn returns with an error changes
\* nothing, so that an id unknown before it is unknown after it.
C30_StoreChangesOnlyOnSuccess ==
    [][ /\ DOMAIN history \subseteq DOMAIN history'
        /\ (history' # history \/ heap' # heap)
              => \E t \in Turns :
                    /\ Puts(t, turn[t].conversation_id)
                    /\ last'.raised = None
                    /\ last'.calls = 1
                    /\ DOMAIN history' = DOMAIN history \cup { turn[t].conversation_id }
                    /\ \A id \in DOMAIN history \ { turn[t].conversation_id } :
                          history'[id] = history[id]
                    /\ \A r \in Turns \ { turn[t].messages } : heap'[r] = heap[r]
                    /\ heap'[turn[t].messages]
                          = Append(heap[turn[t].messages], last'.response[1])
        /\ \A t \in Turns :
              (turn[t].pc \in Awaiting /\ turn'[t].pc = "done" /\ last'.raised # None)
                  => /\ history' = history
                     /\ heap' = heap
                     /\ last'.writes = 0 ]_vars

\* C30 witness: a turn on an id with nothing stored under it ended with a
\* provider error and the id is still unknown, while another id has an entry.
C30_Witness ==
    /\ last.pc = "done"
    /\ last.raised # None
    /\ last.calls = 1
    /\ last.conversation_id \notin DOMAIN history
    /\ DOMAIN history # { }

\* The messages held by the lists of h, stored under an id or not.
Held(h) == UNION { Elements(h[r]) : r \in Turns }

\* C31: every message of every stored transcript is a message that a
\* completion call returned, in the order in which the calls on its list
\* came back: in every step a list either stays as it is or gains, at its end,
\* the one message returned in that step, which no list held before, so that a
\* turn that succeeds lengthens its transcript by exactly one message; and
\* the messages sent with a completion call are messages held by the lists,
\* never the rendered prompt or the text of the user.
C31_OnlyModelMessages ==
    [][ LET returned == { m \in { last'.response } :
                            /\ m # None
                            /\ \E t \in Turns : Puts(t, turn[t].conversation_id) }
        IN  /\ \A r \in Turns :
                  \/ heap'[r] = heap[r]
                  \/ \E m \in returned :
                        /\ heap'[r] = Append(heap[r], m[1])
                        /\ m[1] \notin Held(heap)
                        /\ \E t \in Turns : \E o \in ModelOutcomes(t, 0) :
                              o.ok /\ o.message = m[1]
            /\ \A id \in DOMAIN history' :
                  \/ id \in DOMAIN history /\ Store'[id] = Store[id]
                  \/ \E m \in returned : \E r \in Turns :
                        /\ Store'[id] = Append(heap[r], m[1])
                        /\ Len(Store'[id]) = Len(heap[r]) + 1
            /\ \A t \in Turns : Elements(turn'[t].sent) \subseteq Held(heap)
            /\ Elements(last'.sent) \subseteq Held(heap) ]_vars

\* C31 witness: a completion call that was sent a transcript of earlier model
\* messages, after a prompt was rendered, came back, and the transcript stored
\* under its id is what was sent followed by the message it returned.
C31_Witness ==
    /\ last.pc = "done"
    /\ last.response # None
    /\ last.prompt # None
    /\ last.sent # << >>
    /\ last.conversation_id \in DOMAIN history
    /\ Store[last.conversation_id] = Append(last.sent, last.response[1])

\* C32: when turns on an id that has a stored transcript interleave and
\* succeed, nothing is lost: a turn that loaded a stored transcript which is
\* still the beginning of what is stored when its completion comes back,
\* whatever overlapping turns have stored onto it since, stores all of that
\* followed by its own message.  A put loses a stored message only when the
\* turn loaded the id while nothing was stored under it, or when what is stored
\* by then has nothing in common with what the turn loaded, having been begun
\* by a turn that loaded the id while nothing was stored under it.
C32_InterleavedTurnsMerge ==
    [][ \A t \in Turns :
            \A id \in DOMAIN history :
                Puts(t, id)
                    => /\ (turn[t].loaded # << >> /\ IsPrefix(turn[t].loaded, Store[id]))
                              => Store'[id] = Append(Store[id], last'.response[1])
                       /\ ~(Elements(Store[id]) \subseteq Elements(Store'[id]))
                              => \/ turn[t].loaded = << >>
                                 \/ /\ Elements(turn[t].loaded) \cap Elements(Store[id]) = { }
                                    /\ history[id] # turn[t].messages ]_vars

\* C32 witness: the turn that returned last loaded a stored transcript, an
\* overlapping turn stored its message onto it in between, and what is stored
\* under the id holds what was loaded, the message of the other turn and the
\* message of this one.
C32_Witness ==
    /\ last.pc = "done"
    /\ last.response # None
    /\ last.loaded # << >>
    /\ last.conversation_id \in DOMAIN history
    /\ Len(Store[last.conversation_id]) >= Len(last.loaded) + 2
    /\ IsPrefix(last.loaded, Store[last.conversation_id])
    /\ Store[last.conversation_id][Len(Store[last.conversation_id])] = last.response[1]

\* The call of async_setup_entry that finished last, if one did.
SetupDone == setup.pc \in { "returned", "raised" }

\* C33 as stated: whenever async_setup_entry has forwarded the platforms and
\* returned True, a client is stored as the runtime data of the entry, on the
\* default branch and on the memory-enabled branch alike.
C33_ForwardedWithClient ==
    (SetupDone /\ setup.forwarded /\ setup.returned = Some(TRUE))
        => setup.runtime_data # None

\* C34 as stated: the platforms are forwarded only after the backend check
\* succeeded; an authentication error makes the call return False without
\* forwarding and without a client; any other provider error, a refused
\* connection or a backend status other than 200 makes it fail with
\* ConfigEntryNotReady without forwarding.
C34_ForwardOnlyAfterCheck ==
    SetupDone =>
        LET outcome == setup.check[1]
            memory == setup.entry[1].data.enable_memory = Some(TRUE)
        IN  IF memory
              THEN IF outcome.raised = None /\ outcome.status_code = 200
                     THEN setup.forwarded /\ setup.returned = Some(TRUE)
                     ELSE /\ ~setup.forwarded
                          /\ setup.raised = Some("ConfigEntryNotReady")
              ELSE IF outcome.ok
                     THEN setup.forwarded /\ setup.returned = Some(TRUE)
                     ELSE IF outcome.err = "AuthenticationError"
                            THEN /\ ~setup.forwarded
                                 /\ setup.returned = Some(FALSE)
                                 /\ setup.runtime_data = None
                            ELSE /\ ~setup.forwarded
                                 /\ setup.raised = Some("ConfigEntryNotReady")

\* C35: every call of list_LLM_backends, list_agents or send_message makes
\* exactly one HTTP request, whatever comes back (no retry, no backoff): the
\* requests made are as many as the calls made.  The request of the latest
\* call goes to the base URL the caller passed, or to DEFAULT_LETTA_URL when
\* it passed None, with the timeout the caller passed, or DEFAULT_TIMEOUT
\* (6 seconds) when it passed none or None.
C35_OneRequestPerCall ==
    /\ letta.requests = letta.calls
    /\ letta.call # None
          => LET kwargs == letta.call[1].kwargs
                 helper == letta.call[1].helper
                 request == letta.request[1]
             IN  /\ request.method = IF helper = "send_message" THEN "POST" ELSE "GET"
                 /\ request.url[1] = IF kwargs.base_url = None
                                       THEN DEFAULT_LETTA_URL
                                       ELSE kwargs.base_url[1]
                 /\ request.timeout
                       = IF "timeout" \notin DOMAIN kwargs \/ kwargs.timeout = None
                           THEN Some(DEFAULT_TIMEOUT)
                           ELSE kwargs.timeout
                 /\ DEFAULT_TIMEOUT = 6

\* C35 witness: a second call of a helper, made with base_url=None and
\* timeout=None, came back with a 404 and the helper returned it to its caller
\* after the two requests of the two calls.
C35_Witness ==
    /\ letta.pc = "idle"
    /\ letta.calls = 2
    /\ letta.requests = 2
    /\ letta.response = Some([ raised |-> None, status_code |-> 404 ])
    /\ letta.call # None
    /\ letta.call[1].kwargs.base_url = None
    /\ "timeout" \in DOMAIN letta.call[1].kwargs
    /\ letta.call[1].kwargs.timeout = None
    /\ letta.request[1].url[1] = DEFAULT_LETTA_URL

====
